---- MODULE Spec2Model ----
(***************************************************************************)
(* JavaGenerator::Generate                                                 *)
(* (contrib/libs/protoc/src/google/protobuf/compiler/java/generator.cc)    *)
(* as a state machine: one action per statement group of the function,     *)
(* pc naming the statement group that runs next (or, once the function     *)
(* has returned, the one it returned from).                                *)
(***************************************************************************)
EXTENDS Integers, Sequences, FiniteSets, TLC

\* ------------------------------------------------------------------ bounds
\* longest option sequence ParseGeneratorParameter hands to Generate
MaxOpts == 3
\* most sibling files one GenerateSiblings call reports
MaxSiblings == 1

\* ------------------------------------------------------------------ inputs
RecognizedKeys ==
    {"output_list_file", "immutable", "mutable", "shared", "lite",
     "annotate_code", "annotation_list_file"}

\* keys the if-chain of lines 79-94 does not match (the comparison is exact)
UnknownKeys == {"bogus", "Lite"}

FlagKeys == {"immutable", "mutable", "shared", "lite", "annotate_code"}

OutputListValues == {"", "a.list", "b.list"}
AnnotationListValues == {"", "ann.list"}

\* the (key, value) pairs an option sequence is drawn from
OptionPairs ==
    {[first |-> "output_list_file", second |-> v] : v \in OutputListValues}
    \cup {[first |-> "annotation_list_file", second |-> v] : v \in AnnotationListValues}
    \cup {[first |-> k, second |-> ""] : k \in FlagKeys \cup UnknownKeys}

OptionSeqs == UNION {[1..n -> OptionPairs] : n \in 0..MaxOpts}

\* the descriptor handed to Generate: its java package and outer class name
FileJavaPackage == "com.ex"
FileClassName == "Foo"

\* ------------------------------------------------------------------ state
VARIABLES
    options,          \* std::vector<std::pair<string,string>> options
    idx,              \* position of the range-for over options (1-based)
    file_options,     \* Options file_options
    error,            \* *error, the caller's error-message slot
    errorWrites,      \* number of assignments made to *error
    file_generators,  \* std::vector<std::unique_ptr<FileGenerator>>
    vi,               \* position of the range-for over file_generators
    validated,        \* number of Validate calls that returned true
    all_files,        \* std::vector<string> all_files
    all_annotations,  \* std::vector<string> all_annotations
    openSinks,        \* streams returned by context->Open and not yet destroyed
    openLog,          \* every path passed to context->Open, in call order
    emitLog,          \* per FileGenerator::Generate call: the file it wrote
    siblingLog,       \* per GenerateSiblings call: what the callee appended
    failedAt,         \* first generator whose emission or sibling generation
                      \* failed (a printer left in the failed state), 0 if none
    srclist,          \* the file written through srclist_printer
    annotation_list,  \* the file written through annotation_list_printer
    result,           \* return value of Generate, "pending" until it returns
    pc

vars == <<options, idx, file_options, error, errorWrites, file_generators, vi,
          validated, all_files, all_annotations, openSinks, openLog, emitLog,
          siblingLog, failedAt, srclist, annotation_list, result, pc>>

Pending == "pending"
Running == result = Pending

NotWritten == [written |-> FALSE, path |-> "", content |-> <<>>]

\* ------------------------------------------------------------------ helpers
\* y_absl::StrCat
StrCat(a, b) == a \o b

UnknownOptionError(key) == StrCat("Unknown generator option: ", key)

LiteMutableError ==
    "lite runtime generator option cannot be used with mutable API."

\* the message FileGenerator::Validate leaves in *error when it fails
ValidateError ==
    "foo.proto: Cannot generate Java output because the file's outer class name conflicts."

\* FileGenerator::Validate(error): true with *error untouched, or false with
\* the diagnostic assigned to *error
ValidateOutcomes ==
    {[ok |-> TRUE, wrote |-> FALSE], [ok |-> FALSE, wrote |-> TRUE]}

\* FileGenerator::java_package()
java_package(fg) == FileJavaPackage

\* FileGenerator::classname(): the mutable API's outer class is prefixed
classname(fg) == IF fg.immutable THEN FileClassName ELSE StrCat("Mutable", FileClassName)

\* JavaPackageToDir: dots become slashes, a non-empty result ends in a slash
JavaPackageToDir(package) ==
    CASE package = "" -> ""
      [] package = "com.ex" -> "com/ex/"

SiblingName(k) == StrCat("Sibling", ToString(k))

\* FileGenerator::GenerateSiblings(package_dir, context, file_list,
\* annotation_list): appends the sibling files it writes to file_list and,
\* for some of them, an annotation file to annotation_list; returns nothing.
\* The callee gets the annotation list whatever annotate_code is.
GenerateSiblingsOutcomes(package_dir) ==
    UNION {
      {[files |-> [i \in 1..k |-> StrCat(package_dir, StrCat(SiblingName(i), ".java"))],
        annotations |-> [i \in 1..j |->
            StrCat(package_dir, StrCat(SiblingName(i), ".java.pb.meta"))]]
       : j \in 0..k} : k \in 0..MaxSiblings}

\* srclist_printer.Print("$filename$\n", "filename", name): the text emitted
PrintFilename(name) == StrCat(name, "\n")

\* the for loops of lines 183-185 and 194-197: one Print call per element
PrintList(list) == [i \in 1..Len(list) |-> PrintFilename(list[i])]

\* ------------------------------------------------------------------ Init
\* lines 72-76 and 117-121: the locals as constructed
Init ==
    /\ options \in OptionSeqs
    /\ idx = 1
    /\ file_options = [output_list_file |-> "",
                       generate_immutable_code |-> FALSE,
                       generate_mutable_code |-> FALSE,
                       generate_shared_code |-> FALSE,
                       enforce_lite |-> FALSE,
                       annotate_code |-> FALSE,
                       annotation_list_file |-> ""]
    /\ error = ""
    /\ errorWrites = 0
    /\ file_generators = <<>>
    /\ vi = 1
    /\ validated = 0
    /\ all_files = <<>>
    /\ all_annotations = <<>>
    /\ openSinks = {}
    /\ openLog = <<>>
    /\ emitLog = <<>>
    /\ siblingLog = <<>>
    /\ failedAt = 0
    /\ srclist = NotWritten
    /\ annotation_list = NotWritten
    /\ result = Pending
    /\ pc = "parse"

\* ------------------------------------------------------------------ actions
\* lines 79-98: the effect of one recognized option on file_options
ApplyOption(fo, option) ==
    CASE option.first = "output_list_file" ->
            [fo EXCEPT !.output_list_file = option.second]
      [] option.first = "immutable" -> [fo EXCEPT !.generate_immutable_code = TRUE]
      [] option.first = "mutable" -> [fo EXCEPT !.generate_mutable_code = TRUE]
      [] option.first = "shared" -> [fo EXCEPT !.generate_shared_code = TRUE]
      [] option.first = "lite" -> [fo EXCEPT !.enforce_lite = TRUE]
      [] option.first = "annotate_code" -> [fo EXCEPT !.annotate_code = TRUE]
      [] option.first = "annotation_list_file" ->
            [fo EXCEPT !.annotation_list_file = option.second]

\* mutant: the else branch records the error but does not return
ParseOptionNoReturn ==
    /\ Running /\ pc = "parse" /\ idx <= Len(options)
    /\ IF options[idx].first \in RecognizedKeys
         THEN /\ file_options' = ApplyOption(file_options, options[idx])
              /\ UNCHANGED <<error, errorWrites>>
         ELSE /\ error' = UnknownOptionError(options[idx].first)
              /\ errorWrites' = errorWrites + 1
              /\ UNCHANGED file_options
    /\ idx' = idx + 1
    /\ UNCHANGED <<options, file_generators, vi, validated, all_files,
                   all_annotations, openSinks, openLog, emitLog, siblingLog,
                   failedAt, srclist, annotation_list, result, pc>>

\* lines 78-99: one iteration of the option loop
ParseOption ==
    /\ Running /\ pc = "parse" /\ idx <= Len(options)
    /\ IF options[idx].first \in RecognizedKeys
         THEN /\ file_options' = ApplyOption(file_options, options[idx])
              /\ idx' = idx + 1
              /\ UNCHANGED <<error, errorWrites, result>>
         ELSE /\ error' = UnknownOptionError(options[idx].first)
              /\ errorWrites' = errorWrites + 1
              /\ result' = "false"
              /\ UNCHANGED <<file_options, idx>>
    /\ UNCHANGED <<options, file_generators, vi, validated, all_files,
                   all_annotations, openSinks, openLog, emitLog, siblingLog,
                   failedAt, srclist, annotation_list, pc>>

\* mutant: the conflict is reported but the function goes on
CheckLiteMutableNoReturn ==
    /\ Running /\ pc = "parse" /\ idx > Len(options)
    /\ IF file_options.enforce_lite /\ file_options.generate_mutable_code
         THEN /\ error' = LiteMutableError
              /\ errorWrites' = errorWrites + 1
         ELSE UNCHANGED <<error, errorWrites>>
    /\ pc' = "defaults"
    /\ UNCHANGED <<options, idx, file_options, file_generators, vi, validated,
                   all_files, all_annotations, openSinks, openLog, emitLog,
                   siblingLog, failedAt, srclist, annotation_list, result>>

\* mutant: the exclusion tests the immutable flag
CheckLiteMutableWrongFlag ==
    /\ Running /\ pc = "parse" /\ idx > Len(options)
    /\ IF file_options.enforce_lite /\ file_options.generate_immutable_code
         THEN /\ error' = LiteMutableError
              /\ errorWrites' = errorWrites + 1
              /\ result' = "false"
              /\ pc' = "check_lite"
         ELSE /\ pc' = "defaults"
              /\ UNCHANGED <<error, errorWrites, result>>
    /\ UNCHANGED <<options, idx, file_options, file_generators, vi, validated,
                   all_files, all_annotations, openSinks, openLog, emitLog,
                   siblingLog, failedAt, srclist, annotation_list>>

\* lines 99-104: the option loop ends; the lite/mutable exclusion
CheckLiteMutable ==
    /\ Running /\ pc = "parse" /\ idx > Len(options)
    /\ IF file_options.enforce_lite /\ file_options.generate_mutable_code
         THEN /\ error' = LiteMutableError
              /\ errorWrites' = errorWrites + 1
              /\ result' = "false"
              /\ pc' = "check_lite"
         ELSE /\ pc' = "defaults"
              /\ UNCHANGED <<error, errorWrites, result>>
    /\ UNCHANGED <<options, idx, file_options, file_generators, vi, validated,
                   all_files, all_annotations, openSinks, openLog, emitLog,
                   siblingLog, failedAt, srclist, annotation_list>>

\* mutant: the default also fires when only shared was asked for
FillDefaultsIgnoringShared ==
    /\ Running /\ pc = "defaults"
    /\ file_options' =
         IF /\ ~file_options.generate_immutable_code
            /\ ~file_options.generate_mutable_code
           THEN [file_options EXCEPT !.generate_immutable_code = TRUE,
                                     !.generate_shared_code = TRUE]
           ELSE file_options
    /\ pc' = "select"
    /\ UNCHANGED <<options, idx, error, errorWrites, file_generators, vi,
                   validated, all_files, all_annotations, openSinks, openLog,
                   emitLog, siblingLog, failedAt, srclist, annotation_list, result>>

\* lines 106-112: immutable and shared code by default
FillDefaults ==
    /\ Running /\ pc = "defaults"
    /\ file_options' =
         IF /\ ~file_options.generate_immutable_code
            /\ ~file_options.generate_mutable_code
            /\ ~file_options.generate_shared_code
           THEN [file_options EXCEPT !.generate_immutable_code = TRUE,
                                     !.generate_shared_code = TRUE]
           ELSE file_options
    /\ pc' = "select"
    /\ UNCHANGED <<options, idx, error, errorWrites, file_generators, vi,
                   validated, all_files, all_annotations, openSinks, openLog,
                   emitLog, siblingLog, failedAt, srclist, annotation_list, result>>

\* mutant: the mutable generator is placed first
SelectVariantsMutableFirst ==
    /\ Running /\ pc = "select"
    /\ file_generators' =
         (IF file_options.generate_mutable_code
            THEN <<[immutable |-> FALSE]>> ELSE <<>>)
         \o (IF file_options.generate_immutable_code
               THEN <<[immutable |-> TRUE]>> ELSE <<>>)
    /\ vi' = 1
    /\ pc' = "validate"
    /\ UNCHANGED <<options, idx, file_options, error, errorWrites, validated,
                   all_files, all_annotations, openSinks, openLog, emitLog,
                   siblingLog, failedAt, srclist, annotation_list, result>>

\* lines 121-131: the file generators, immutable first
SelectVariants ==
    /\ Running /\ pc = "select"
    /\ file_generators' =
         (IF file_options.generate_immutable_code
            THEN <<[immutable |-> TRUE]>> ELSE <<>>)
         \o (IF file_options.generate_mutable_code
               THEN <<[immutable |-> FALSE]>> ELSE <<>>)
    /\ vi' = 1
    /\ pc' = "validate"
    /\ UNCHANGED <<options, idx, file_options, error, errorWrites, validated,
                   all_files, all_annotations, openSinks, openLog, emitLog,
                   siblingLog, failedAt, srclist, annotation_list, result>>

\* mutant: a failed Validate does not end the function
ValidateVariantNoReturn ==
    /\ Running /\ pc = "validate" /\ vi <= Len(file_generators)
    /\ \E o \in ValidateOutcomes :
         /\ validated' = IF o.ok THEN validated + 1 ELSE validated
         /\ error' = IF o.wrote THEN ValidateError ELSE error
         /\ errorWrites' = IF o.wrote THEN errorWrites + 1 ELSE errorWrites
    /\ vi' = vi + 1
    /\ UNCHANGED <<options, idx, file_options, file_generators, all_files,
                   all_annotations, openSinks, openLog, emitLog, siblingLog,
                   failedAt, srclist, annotation_list, result, pc>>

\* lines 133-137: one iteration of the validation loop
ValidateVariant ==
    /\ Running /\ pc = "validate" /\ vi <= Len(file_generators)
    /\ \E o \in ValidateOutcomes :
         /\ error' = IF o.wrote THEN ValidateError ELSE error
         /\ errorWrites' = IF o.wrote THEN errorWrites + 1 ELSE errorWrites
         /\ IF o.ok
              THEN /\ validated' = validated + 1
                   /\ vi' = vi + 1
                   /\ UNCHANGED result
              ELSE /\ result' = "false"
                   /\ UNCHANGED <<validated, vi>>
    /\ UNCHANGED <<options, idx, file_options, file_generators, all_files,
                   all_annotations, openSinks, openLog, emitLog, siblingLog,
                   failedAt, srclist, annotation_list, pc>>

\* lines 137-139: the validation loop ends, the generation loop begins
BeginGenerate ==
    /\ Running /\ pc = "validate" /\ vi > Len(file_generators)
    /\ vi' = 1
    /\ pc' = "generate"
    /\ UNCHANGED <<options, idx, file_options, error, errorWrites,
                   file_generators, validated, all_files, all_annotations,
                   openSinks, openLog, emitLog, siblingLog, failedAt, srclist,
                   annotation_list, result>>

\* lines 140-143: the path of the generator's main java file
JavaFilename(fg) ==
    StrCat(StrCat(JavaPackageToDir(java_package(fg)), classname(fg)), ".java")

\* line 145
InfoFullPath(fg) == StrCat(JavaFilename(fg), ".pb.meta")

CurrentGenerator == file_generators[vi]

\* mutant: the annotation path is recorded whatever annotate_code is
GenRecordAlwaysAnnotating ==
    /\ Running /\ pc = "generate" /\ vi <= Len(file_generators)
    /\ all_files' = Append(all_files, JavaFilename(CurrentGenerator))
    /\ all_annotations' = Append(all_annotations, InfoFullPath(CurrentGenerator))
    /\ pc' = "open"
    /\ UNCHANGED <<options, idx, file_options, error, errorWrites,
                   file_generators, vi, validated, openSinks, openLog, emitLog,
                   siblingLog, failedAt, srclist, annotation_list, result>>

\* lines 139-148: the paths of one generator are recorded
GenRecord ==
    /\ Running /\ pc = "generate" /\ vi <= Len(file_generators)
    /\ all_files' = Append(all_files, JavaFilename(CurrentGenerator))
    /\ all_annotations' =
         IF file_options.annotate_code
           THEN Append(all_annotations, InfoFullPath(CurrentGenerator))
           ELSE all_annotations
    /\ pc' = "open"
    /\ UNCHANGED <<options, idx, file_options, error, errorWrites,
                   file_generators, vi, validated, openSinks, openLog, emitLog,
                   siblingLog, failedAt, srclist, annotation_list, result>>

\* lines 151-152: output(context->Open(java_filename))
GenOpen ==
    /\ Running /\ pc = "open"
    /\ openSinks' = openSinks \cup {JavaFilename(CurrentGenerator)}
    /\ openLog' = Append(openLog, JavaFilename(CurrentGenerator))
    /\ pc' = "emit"
    /\ UNCHANGED <<options, idx, file_options, error, errorWrites,
                   file_generators, vi, validated, all_files, all_annotations,
                   emitLog, siblingLog, failedAt, srclist, annotation_list, result>>

\* the first generator whose generation failed, once generator vi has
RecordFailure(failed) == IF failed /\ failedAt = 0 THEN vi ELSE failedAt

\* mutant: a printer left in the failed state ends the function with an error
GenEmitAbortOnFailure ==
    /\ Running /\ pc = "emit"
    /\ emitLog' = Append(emitLog, JavaFilename(CurrentGenerator))
    /\ \E failed \in BOOLEAN :
         /\ failedAt' = RecordFailure(failed)
         /\ IF failed
              THEN /\ error' = "write failed"
                   /\ errorWrites' = errorWrites + 1
                   /\ result' = "false"
                   /\ openSinks' = openSinks \ {JavaFilename(CurrentGenerator)}
                   /\ UNCHANGED pc
              ELSE /\ pc' = "siblings"
                   /\ UNCHANGED <<error, errorWrites, result, openSinks>>
    /\ UNCHANGED <<options, idx, file_options, file_generators, vi, validated,
                   all_files, all_annotations, openLog, siblingLog, srclist,
                   annotation_list>>

\* lines 153-160: file_generator->Generate(&printer).  The call returns
\* nothing, and whether the printer ended in the failed state is not read.
GenEmit ==
    /\ Running /\ pc = "emit"
    /\ emitLog' = Append(emitLog, JavaFilename(CurrentGenerator))
    /\ \E failed \in BOOLEAN : failedAt' = RecordFailure(failed)
    /\ pc' = "siblings"
    /\ UNCHANGED <<options, idx, file_options, error, errorWrites,
                   file_generators, vi, validated, all_files, all_annotations,
                   openSinks, openLog, siblingLog, srclist, annotation_list,
                   result>>

\* lines 162-164: file_generator->GenerateSiblings(package_dir, context,
\* &all_files, &all_annotations).  The sinks the callee opens are its own and
\* are gone when it returns; it returns nothing, so a failure in it is not
\* seen here.
GenSiblings ==
    /\ Running /\ pc = "siblings"
    /\ \E o \in GenerateSiblingsOutcomes(
                    JavaPackageToDir(java_package(CurrentGenerator))) :
         /\ all_files' = all_files \o o.files
         /\ all_annotations' = all_annotations \o o.annotations
         /\ openLog' = openLog \o o.files
         /\ siblingLog' = Append(siblingLog, o)
    /\ \E failed \in BOOLEAN : failedAt' = RecordFailure(failed)
    /\ pc' = "info"
    /\ UNCHANGED <<options, idx, file_options, error, errorWrites,
                   file_generators, vi, validated, openSinks, emitLog, srclist,
                   annotation_list, result>>

\* lines 166-168: info_output(context->Open(info_full_path))
GenInfoOpen ==
    /\ Running /\ pc = "info"
    /\ IF file_options.annotate_code
         THEN /\ openSinks' = openSinks \cup {InfoFullPath(CurrentGenerator)}
              /\ openLog' = Append(openLog, InfoFullPath(CurrentGenerator))
              /\ pc' = "info_write"
         ELSE /\ pc' = "end_iter"
              /\ UNCHANGED <<openSinks, openLog>>
    /\ UNCHANGED <<options, idx, file_options, error, errorWrites,
                   file_generators, vi, validated, all_files, all_annotations,
                   emitLog, siblingLog, failedAt, srclist, annotation_list, result>>

\* lines 169-170: the annotations are serialized and info_output goes out of
\* scope
GenInfoWrite ==
    /\ Running /\ pc = "info_write"
    /\ openSinks' = openSinks \ {InfoFullPath(CurrentGenerator)}
    /\ pc' = "end_iter"
    /\ UNCHANGED <<options, idx, file_options, error, errorWrites,
                   file_generators, vi, validated, all_files, all_annotations,
                   openLog, emitLog, siblingLog, failedAt, srclist, annotation_list,
                   result>>

\* mutant: the main stream outlives the loop body
GenEndIterLeakingOutput ==
    /\ Running /\ pc = "end_iter"
    /\ vi' = vi + 1
    /\ pc' = "generate"
    /\ UNCHANGED <<options, idx, file_options, error, errorWrites,
                   file_generators, validated, all_files, all_annotations,
                   openSinks, openLog, emitLog, siblingLog, failedAt, srclist,
                   annotation_list, result>>

\* line 171: the loop body ends; printer and output are destroyed
GenEndIter ==
    /\ Running /\ pc = "end_iter"
    /\ openSinks' = openSinks \ {JavaFilename(CurrentGenerator)}
    /\ vi' = vi + 1
    /\ pc' = "generate"
    /\ UNCHANGED <<options, idx, file_options, error, errorWrites,
                   file_generators, validated, all_files, all_annotations,
                   openLog, emitLog, siblingLog, failedAt, srclist, annotation_list,
                   result>>

\* lines 171-174: the generation loop ends; file_generators.clear()
ClearGenerators ==
    /\ Running /\ pc = "generate" /\ vi > Len(file_generators)
    /\ file_generators' = <<>>
    /\ vi' = 1
    /\ pc' = "srclist"
    /\ UNCHANGED <<options, idx, file_options, error, errorWrites, validated,
                   all_files, all_annotations, openSinks, openLog, emitLog,
                   siblingLog, failedAt, srclist, annotation_list, result>>

\* mutant: the loop over all_files starts at the second element
WriteOutputListSkippingFirst ==
    /\ Running /\ pc = "srclist"
    /\ IF file_options.output_list_file # ""
         THEN /\ srclist' = [written |-> TRUE,
                             path |-> file_options.output_list_file,
                             content |-> PrintList(
                                 SubSeq(all_files, 2, Len(all_files)))]
              /\ openLog' = Append(openLog, file_options.output_list_file)
         ELSE UNCHANGED <<srclist, openLog>>
    /\ pc' = "annotation_list"
    /\ UNCHANGED <<options, idx, file_options, error, errorWrites,
                   file_generators, vi, validated, all_files, all_annotations,
                   openSinks, emitLog, siblingLog, failedAt, annotation_list, result>>

\* lines 176-186: the output list; its stream is closed at the end of the if
WriteOutputList ==
    /\ Running /\ pc = "srclist"
    /\ IF file_options.output_list_file # ""
         THEN /\ srclist' = [written |-> TRUE,
                             path |-> file_options.output_list_file,
                             content |-> PrintList(all_files)]
              /\ openLog' = Append(openLog, file_options.output_list_file)
         ELSE UNCHANGED <<srclist, openLog>>
    /\ pc' = "annotation_list"
    /\ UNCHANGED <<options, idx, file_options, error, errorWrites,
                   file_generators, vi, validated, all_files, all_annotations,
                   openSinks, emitLog, siblingLog, failedAt, annotation_list, result>>

\* lines 188-198: the annotation list, written the same way
WriteAnnotationList ==
    /\ Running /\ pc = "annotation_list"
    /\ IF file_options.annotation_list_file # ""
         THEN /\ annotation_list' = [written |-> TRUE,
                                     path |-> file_options.annotation_list_file,
                                     content |-> PrintList(all_annotations)]
              /\ openLog' = Append(openLog, file_options.annotation_list_file)
         ELSE UNCHANGED <<annotation_list, openLog>>
    /\ pc' = "return"
    /\ UNCHANGED <<options, idx, file_options, error, errorWrites,
                   file_generators, vi, validated, all_files, all_annotations,
                   openSinks, emitLog, siblingLog, failedAt, srclist, result>>

\* line 200: return true
ReturnTrue ==
    /\ Running /\ pc = "return"
    /\ result' = "true"
    /\ UNCHANGED <<options, idx, file_options, error, errorWrites,
                   file_generators, vi, validated, all_files, all_annotations,
                   openSinks, openLog, emitLog, siblingLog, failedAt, srclist,
                   annotation_list, pc>>

Next ==
    \/ ParseOption
    \/ CheckLiteMutable
    \/ FillDefaults
    \/ SelectVariants
    \/ ValidateVariant
    \/ BeginGenerate
    \/ GenRecord
    \/ GenOpen
    \/ GenEmit
    \/ GenSiblings
    \/ GenInfoOpen
    \/ GenInfoWrite
    \/ GenEndIter
    \/ ClearGenerators
    \/ WriteOutputList
    \/ WriteAnnotationList
    \/ ReturnTrue

Spec == Init /\ [][Next]_vars


\* ------------------------------------------------------------------ vocabulary of the properties
Keys == {options[i].first : i \in 1..Len(options)}
HasKey(k) == k \in Keys
AllRecognized == Keys \subseteq RecognizedKeys
HasUnknown == ~AllRecognized

\* position of the first key outside the recognized set
FirstUnknown ==
    CHOOSE i \in 1..Len(options) :
        /\ options[i].first \notin RecognizedKeys
        /\ \A j \in 1..(i - 1) : options[j].first \in RecognizedKeys

\* key k occurs among the first n options
KeyWithin(k, n) == \E i \in 1..n : options[i].first = k

\* value of the last occurrence of key k among the first n options, "" if none
LastValueWithin(k, n) ==
    IF KeyWithin(k, n)
      THEN LET last == CHOOSE i \in 1..n :
                         /\ options[i].first = k
                         /\ \A j \in (i + 1)..n : options[j].first # k
           IN options[last].second
      ELSE ""

LastValue(k) == LastValueWithin(k, Len(options))

\* number of generators the flags of file_options ask for
NumSelected ==
    (IF file_options.generate_immutable_code THEN 1 ELSE 0)
    + (IF file_options.generate_mutable_code THEN 1 ELSE 0)

ImmutableJava == "com/ex/Foo.java"
MutableJava == "com/ex/MutableFoo.java"

BeforeValidateLoop == pc \in {"parse", "check_lite", "defaults", "select"}
PastDefaults == pc \notin {"parse", "check_lite", "defaults"}
InLoopBody == pc \in {"open", "emit", "siblings", "info", "info_write", "end_iter"}

\* the paths recorded for the generators run so far: each one's main file,
\* then what its GenerateSiblings call appended
RECURSIVE RecordedFiles(_)
RecordedFiles(n) ==
    IF n = 0 THEN <<>>
    ELSE RecordedFiles(n - 1) \o <<emitLog[n]>> \o siblingLog[n].files

\* the annotation paths the GenerateSiblings calls so far appended
RECURSIVE SiblingAnnotations(_)
SiblingAnnotations(n) ==
    IF n = 0 THEN <<>>
    ELSE SiblingAnnotations(n - 1) \o siblingLog[n].annotations

\* ------------------------------------------------------------------ C1
\* C1: context->Open is not called before every selected generator's Validate
\* has returned true; a run that returns false (unknown key, lite/mutable
\* conflict, or a Validate that fails, the second of two included) has opened
\* no sink and recorded no generated file.
ValidateAllBeforeOpen ==
    /\ openLog # <<>> => (~BeforeValidateLoop /\ pc # "validate"
                          /\ validated = NumSelected)
    /\ result = "false" => (openLog = <<>> /\ openSinks = {} /\ all_files = <<>>)

\* the second of two generators fails Validate after the first passed
SecondVariantFailsValidate ==
    /\ result = "false" /\ pc = "validate"
    /\ Len(file_generators) = 2 /\ validated = 1
    /\ openLog = <<>> /\ all_files = <<>>

\* ------------------------------------------------------------------ C2
\* C2: options of recognized keys without lite together with mutable pass
\* option validation, and after default-filling at least one of the three
\* generate flags is set: immutable and shared (not mutable) when none of
\* immutable, mutable, shared was supplied, otherwise exactly the supplied ones.
DefaultFilledConfig ==
    (AllRecognized /\ ~(HasKey("lite") /\ HasKey("mutable"))) =>
        /\ ~(result = "false" /\ pc \in {"parse", "check_lite"})
        /\ PastDefaults =>
             /\ \/ file_options.generate_immutable_code
                \/ file_options.generate_mutable_code
                \/ file_options.generate_shared_code
             /\ IF ~(HasKey("immutable") \/ HasKey("mutable") \/ HasKey("shared"))
                  THEN /\ file_options.generate_immutable_code
                       /\ file_options.generate_shared_code
                       /\ ~file_options.generate_mutable_code
                  ELSE /\ file_options.generate_immutable_code <=> HasKey("immutable")
                       /\ file_options.generate_mutable_code <=> HasKey("mutable")
                       /\ file_options.generate_shared_code <=> HasKey("shared")

\* the empty parameter string, default-filled
EmptyParameterDefaulted ==
    /\ options = <<>> /\ pc = "select"
    /\ file_options.generate_immutable_code
    /\ file_options.generate_shared_code
    /\ ~file_options.generate_mutable_code

\* ------------------------------------------------------------------ C3
\* C3: with an unknown key in the options the function never leaves the option
\* loop, never processes an option after the first unknown key, and returns
\* false with the message naming the first unknown key, whether or not lite and
\* mutable are both present; file_options holds the effect of the options
\* before that key only.
FirstUnknownKeyWins ==
    HasUnknown =>
        /\ pc = "parse"
        /\ result # "true"
        /\ idx <= FirstUnknown
        /\ error \in {"", UnknownOptionError(options[FirstUnknown].first)}
        /\ result = "false" =>
             /\ idx = FirstUnknown
             /\ error = UnknownOptionError(options[FirstUnknown].first)
             /\ file_options.generate_immutable_code
                  <=> KeyWithin("immutable", FirstUnknown - 1)
             /\ file_options.generate_mutable_code
                  <=> KeyWithin("mutable", FirstUnknown - 1)
             /\ file_options.generate_shared_code
                  <=> KeyWithin("shared", FirstUnknown - 1)
             /\ file_options.enforce_lite <=> KeyWithin("lite", FirstUnknown - 1)
             /\ file_options.annotate_code
                  <=> KeyWithin("annotate_code", FirstUnknown - 1)
             /\ file_options.output_list_file
                  = LastValueWithin("output_list_file", FirstUnknown - 1)
             /\ file_options.annotation_list_file
                  = LastValueWithin("annotation_list_file", FirstUnknown - 1)

\* an unknown key between lite and mutable: the unknown-key message is returned
UnknownKeyBeatsLiteMutable ==
    /\ result = "false"
    /\ Len(options) = 3
    /\ options[1].first = "lite"
    /\ options[2].first = "Lite"
    /\ options[3].first = "mutable"
    /\ error = "Unknown generator option: Lite"
    /\ ~file_options.generate_mutable_code

\* ------------------------------------------------------------------ C4
\* C4: recognized options holding both lite and mutable, wherever they stand,
\* make the function return false at the exclusion check with the fixed
\* message; a run that got past the check never has enforce_lite and
\* generate_mutable_code both set.
LiteMutableRejected ==
    /\ (AllRecognized /\ HasKey("lite") /\ HasKey("mutable")) =>
          /\ pc \in {"parse", "check_lite"}
          /\ result # "true"
          /\ pc = "check_lite" => (result = "false" /\ error = LiteMutableError)
          /\ result = "false" => pc = "check_lite"
    /\ PastDefaults \/ pc = "defaults" =>
          ~(file_options.enforce_lite /\ file_options.generate_mutable_code)

\* mutable first, another key, then lite
MutableThenLiteRejected ==
    /\ result = "false" /\ pc = "check_lite"
    /\ Len(options) = 3
    /\ options[1].first = "mutable"
    /\ options[2].first = "output_list_file"
    /\ options[3].first = "lite"
    /\ error = LiteMutableError

PrimaryClosedBeforeNextStep ==
    pc \in {"siblings", "info", "info_write"} =>
        JavaFilename(CurrentGenerator) \notin openSinks

\* C6 amended: a generator's main stream stays open from its Open through its
\* emission, its sibling generation and the opening and writing of its
\* annotation stream, and is released at the end of that generator's loop
\* iteration; the annotation stream is released before it.  No stream is held
\* when the next generator's main stream is opened, when the lists are written
\* or when the function returns, so no stream is shared between generators.
PrimaryHeldToEndOfIteration ==
    /\ pc \in {"emit", "siblings", "info", "end_iter"} =>
          openSinks = {JavaFilename(CurrentGenerator)}
    /\ pc = "info_write" =>
          openSinks = {JavaFilename(CurrentGenerator), InfoFullPath(CurrentGenerator)}
    /\ pc \notin {"emit", "siblings", "info", "info_write", "end_iter"} =>
          openSinks = {}

\* the second generator holds its own main and annotation streams, nothing else
SecondVariantHoldsOnlyItsSinks ==
    /\ pc = "info_write" /\ vi = 2
    /\ openSinks = {MutableJava, StrCat(MutableJava, ".pb.meta")}
    /\ ImmutableJava \notin openSinks

\* ------------------------------------------------------------------ C7
\* C7: in a run that reaches the list-writing statements (one that returns
\* true) the output list is written exactly if the last output_list_file
\* option has a non-empty value, to that path, and the annotation list exactly
\* if the last annotation_list_file option has one, each whatever the other;
\* the output list holds one newline-terminated line per recorded path, in
\* recording order: per generator its main file, then its siblings.  A run
\* that returns false writes neither list.
ManifestsAsConfigured ==
    /\ srclist.written => pc \in {"annotation_list", "return"}
    /\ annotation_list.written => pc = "return"
    /\ pc = "return" =>
          /\ srclist.written <=> LastValue("output_list_file") # ""
          /\ annotation_list.written <=> LastValue("annotation_list_file") # ""
          /\ all_files = RecordedFiles(Len(emitLog))
          /\ srclist.written =>
                /\ srclist.path = LastValue("output_list_file")
                /\ Len(srclist.content) = Len(all_files)
                /\ \A i \in 1..Len(all_files) :
                      srclist.content[i] = StrCat(all_files[i], "\n")
          /\ annotation_list.written =>
                /\ annotation_list.path = LastValue("annotation_list_file")
                /\ Len(annotation_list.content) = Len(all_annotations)
                /\ \A i \in 1..Len(all_annotations) :
                      annotation_list.content[i] = StrCat(all_annotations[i], "\n")

\* two output_list_file options, the last one names the list; the mutable
\* generator's main file and its sibling are listed in order
OutputListLastWinsInOrder ==
    /\ result = "true"
    /\ Len(options) = 3
    /\ options[1] = [first |-> "output_list_file", second |-> "a.list"]
    /\ options[2] = [first |-> "mutable", second |-> ""]
    /\ options[3] = [first |-> "output_list_file", second |-> "b.list"]
    /\ srclist.path = "b.list"
    /\ srclist.content = <<"com/ex/MutableFoo.java\n", "com/ex/Sibling1.java\n">>
    /\ ~annotation_list.written

\* ------------------------------------------------------------------ C8
\* C8 as stated: once a generator's emission or sibling generation has failed,
\* no later generator is run, no list is written and Generate does not return
\* true.
GenerationFailureIsFatal ==
    failedAt # 0 =>
        /\ Len(emitLog) <= failedAt
        /\ ~srclist.written
        /\ ~annotation_list.written
        /\ result # "true"

\* C8 amended: a failure while driving a generator's emission or sibling
\* generation is not seen by Generate (both calls return nothing and the
\* printer's state is not read): the error slot stays untouched, the remaining
\* generators are run, the lists are written as configured and Generate
\* returns true, every stream released.
GenerationFailureIsIgnored ==
    failedAt # 0 =>
        /\ result # "false"
        /\ error = "" /\ errorWrites = 0
        /\ pc = "return" =>
              /\ Len(emitLog) = NumSelected
              /\ Len(siblingLog) = NumSelected
              /\ srclist.written <=> file_options.output_list_file # ""
              /\ annotation_list.written <=> file_options.annotation_list_file # ""
              /\ openSinks = {}

\* the first of two generators failed; the second ran, the list was written
FailureThenSuccess ==
    /\ result = "true" /\ failedAt = 1
    /\ emitLog = <<ImmutableJava, MutableJava>>
    /\ srclist.written
    /\ error = ""

\* ------------------------------------------------------------------ C9
\* C9: *error is assigned at most once per call, and Generate returns false
\* exactly if it was assigned: every false return (unknown key, lite/mutable
\* conflict, failed Validate) leaves a message, a true return leaves the slot
\* as it was.
ErrorSlotWrittenIffFailure ==
    /\ errorWrites <= 1
    /\ result = "false" <=> errorWrites = 1
    /\ result = "false" => error # ""
    /\ result # "false" => error = ""
    /\ (result = "false" /\ pc = "parse") =>
          \E k \in UnknownKeys : error = StrCat("Unknown generator option: ", k)
    /\ (result = "false" /\ pc = "check_lite") => error = LiteMutableError
    /\ (result = "false" /\ pc = "validate") => error = ValidateError
    /\ result = "false" => pc \in {"parse", "check_lite", "validate"}

\* a failed Validate: one write, false returned
ValidateFailureLeavesMessage ==
    /\ result = "false" /\ pc = "validate"
    /\ errorWrites = 1 /\ error = ValidateError

\* ------------------------------------------------------------------ C10
\* C10: the generators, and so the main files opened, follow from
\* generate_immutable_code and generate_mutable_code alone: the immutable one
\* is there iff the first flag is set and comes first, the other iff the
\* second is set, and generate_shared_code adds none.  With shared as the only
\* one of immutable/mutable/shared supplied there is no generator: nothing is
\* validated, no main file is opened or recorded and Generate returns true.
VariantsFollowFlags ==
    /\ (pc = "validate" \/ pc = "generate" \/ InLoopBody) =>
          /\ Len(file_generators) = NumSelected
          /\ file_options.generate_immutable_code =>
                file_generators[1] = [immutable |-> TRUE]
          /\ file_options.generate_mutable_code =>
                file_generators[NumSelected] = [immutable |-> FALSE]
    /\ pc = "return" =>
          emitLog = (IF file_options.generate_immutable_code
                       THEN <<ImmutableJava>> ELSE <<>>)
                    \o (IF file_options.generate_mutable_code
                          THEN <<MutableJava>> ELSE <<>>)
    /\ (AllRecognized /\ HasKey("shared")
        /\ ~HasKey("immutable") /\ ~HasKey("mutable")) =>
          /\ result # "false"
          /\ validated = 0 /\ file_generators = <<>>
          /\ emitLog = <<>> /\ all_files = <<>>
          /\ \A i \in 1..Len(openLog) :
                openLog[i] \in {file_options.output_list_file,
                                file_options.annotation_list_file}

\* shared alone: success with an empty output list written
SharedOnlySucceedsWithNothing ==
    /\ result = "true"
    /\ HasKey("shared") /\ HasKey("output_list_file")
    /\ ~HasKey("immutable") /\ ~HasKey("mutable")
    /\ all_files = <<>> /\ validated = 0
    /\ srclist.written /\ srclist.content = <<>>

====
